---- MODULE Spec2Model ----
(***************************************************************************)
(* Model of scripts/gen_k8s_diagrams.py: the loader's normalization, the   *)
(* partition of the loaded objects by kind, the Service -> Workload        *)
(* selector matching, and the edges written to the container view          *)
(* (c4-container.puml) and to the topology view (k8s-topology.puml).       *)
(*                                                                         *)
(* Python values are tagged records: [t |-> "None"], [t |-> "str", v],     *)
(* [t |-> "dict", v |-> function on keys], [t |-> "list", v |-> sequence]. *)
(* [t |-> "raise"] stands for an expression that raised an exception; an   *)
(* exception is never caught in the script, so it ends main() before the   *)
(* file under construction is written.                                     *)
(***************************************************************************)
EXTENDS Integers, Sequences, FiniteSets, TLC

VARIABLES include_pods, objs, pc, workloads, services, ingresses, pods,
          endpoints, wl_by_ns, svc_backends, lines, low

vars == <<include_pods, objs, pc, workloads, services, ingresses, pods,
          endpoints, wl_by_ns, svc_backends, lines, low>>

\* Largest number of documents the loader hands to main() in one run.
MaxObjs == 4

-----------------------------------------------------------------------------
(* Python values *)

None == [t |-> "None"]
Raise == [t |-> "raise"]
S(x) == [t |-> "str", v |-> x]
Dict(f) == [t |-> "dict", v |-> f]
List(q) == [t |-> "list", v |-> q]
EmptyDict == Dict(<<>>)
EmptyList == List(<<>>)

\* bool(x) of Python
Truthy(x) ==
    CASE x.t = "None" -> FALSE
      [] x.t = "str"  -> x.v # ""
      [] x.t = "dict" -> DOMAIN x.v # {}
      [] x.t = "list" -> Len(x.v) > 0
      [] OTHER        -> FALSE

\* x or y
Or(x, y) == IF x.t = "raise" THEN Raise ELSE IF Truthy(x) THEN x ELSE y

\* o.get(k, d): AttributeError unless o is a dict
Get(o, k, d) ==
    IF o.t = "dict" THEN (IF k \in DOMAIN o.v THEN o.v[k] ELSE d) ELSE Raise

\* "k" in o, for a dict o
Has(o, k) == o.t = "dict" /\ k \in DOMAIN o.v

\* {x} inside an f-string, for the strings and None the accessors return
Str(x) ==
    CASE x.t = "str"  -> x.v
      [] x.t = "None" -> "None"
      [] OTHER        -> "<object>"

\* for e in x: None is not iterable; a dict or a str yields strings, and the
\* loop bodies of the script call .get on each element, so only a list or an
\* empty dict or str gets through the loop
Iterable(x) ==
    \/ x.t = "list"
    \/ x.t = "dict" /\ DOMAIN x.v = {}
    \/ x.t = "str" /\ x.v = ""

\* the elements the loop visits
Iter(x) == IF x.t = "list" THEN x.v ELSE <<>>

-----------------------------------------------------------------------------
(* Accessors, lines 35-54 *)

ns(obj) == Get(Get(obj, "metadata", EmptyDict), "namespace", S("default"))
name(obj) == Get(Get(obj, "metadata", EmptyDict), "name", S(""))
kind(obj) == Get(obj, "kind", S(""))

label_map(obj) ==
    Or(Get(Get(obj, "metadata", EmptyDict), "labels", EmptyDict), EmptyDict)

svc_selector(obj) ==
    Or(Get(Get(obj, "spec", EmptyDict), "selector", EmptyDict), EmptyDict)

workload_type(k) ==
    k \in {S("Deployment"), S("StatefulSet"), S("DaemonSet"), S("Job"),
           S("CronJob")}

obj_key(obj) == Str(ns(obj)) \o ":" \o Str(kind(obj)) \o ":" \o Str(name(obj))

-----------------------------------------------------------------------------
(* The documents a run may be given *)

Meta(n, nm, extra) == Dict([namespace |-> S(n), name |-> S(nm)] @@ extra)
PathTo(svcname) ==
    Dict([path |-> S("/"),
          backend |-> Dict([service |-> Dict([name |-> S(svcname)])])])
Ref(k, nm) == Dict([kind |-> S(k), name |-> S(nm)])

Universe ==
    << \* 1: Deployment web/api, labels {app: x, tier: y}
       Dict([kind |-> S("Deployment"),
             metadata |-> Meta("web", "api",
                 [labels |-> Dict([app |-> S("x"), tier |-> S("y")])])]),
       \* 2: the same key again, labels: null
       Dict([kind |-> S("Deployment"),
             metadata |-> Meta("web", "api", [labels |-> None])]),
       \* 3: StatefulSet default/db, labels {app: x}
       Dict([kind |-> S("StatefulSet"),
             metadata |-> Meta("default", "db",
                 [labels |-> Dict([app |-> S("x")])])]),
       \* 4: Service web/frontend, selector {app: x}
       Dict([kind |-> S("Service"),
             metadata |-> Meta("web", "frontend", <<>>),
             spec |-> Dict([selector |-> Dict([app |-> S("x")])])]),
       \* 5: the same key again, selector: null
       Dict([kind |-> S("Service"),
             metadata |-> Meta("web", "frontend", <<>>),
             spec |-> Dict([selector |-> None])]),
       \* 6: Service frontend without metadata.namespace, selector {app: x}
       Dict([kind |-> S("Service"),
             metadata |-> Dict([name |-> S("frontend")]),
             spec |-> Dict([selector |-> Dict([app |-> S("x")])])]),
       \* 7: Ingress web/main; rule 1 names frontend on two of three paths,
       \*    rule 2 has no http
       Dict([kind |-> S("Ingress"),
             metadata |-> Meta("web", "main", <<>>),
             spec |-> Dict([rules |-> List(<<
                 Dict([http |-> Dict([paths |-> List(<<
                     PathTo("frontend"),
                     Dict([path |-> S("/r"), backend |-> EmptyDict]),
                     PathTo("frontend") >>)])]),
                 Dict([host |-> S("h")]) >>)])]),
       \* 8: Pod web/api-0 owned by a ReplicaSet and, listed twice, by
       \*    Deployment api; one reference lacks kind
       Dict([kind |-> S("Pod"),
             metadata |-> Meta("web", "api-0",
                 [ownerReferences |-> List(<<
                     Ref("ReplicaSet", "api-rs"),
                     Ref("Deployment", "api"),
                     Dict([name |-> S("api")]),
                     Ref("Deployment", "api") >>)])]),
       \* 9: Ingress web/edge with spec.rules: null
       Dict([kind |-> S("Ingress"),
             metadata |-> Meta("web", "edge", <<>>),
             spec |-> Dict([rules |-> None])]),
       \* 10: the key of 4 and 5 again, selector {app: x, tier: z}
       Dict([kind |-> S("Service"),
             metadata |-> Meta("web", "frontend", <<>>),
             spec |-> Dict([selector |-> Dict([app |-> S("x"), tier |-> S("z")])])]),
       \* 11: a document without metadata
       Dict([kind |-> S("ConfigMap")]) >>

-----------------------------------------------------------------------------
(* load_objects, lines 27-33: a document is kept when it has kind and metadata *)

Normalized(o) == o.t = "dict" /\ Has(o, "kind") /\ Has(o, "metadata")

Init ==
    /\ include_pods \in BOOLEAN
    /\ objs = <<>>
    /\ pc = "load"
    /\ workloads = <<>>
    /\ services = <<>>
    /\ ingresses = <<>>
    /\ pods = <<>>
    /\ endpoints = <<>>
    /\ wl_by_ns = <<>>
    /\ svc_backends = <<>>
    /\ lines = <<>>
    /\ low = <<>>

LoadObject ==
    /\ pc = "load"
    /\ Len(objs) < MaxObjs
    /\ \E i \in DOMAIN Universe :
          objs' = IF Normalized(Universe[i]) THEN Append(objs, Universe[i])
                  ELSE objs
    /\ UNCHANGED <<include_pods, pc, workloads, services, ingresses, pods,
                   endpoints, wl_by_ns, svc_backends, lines, low>>

-----------------------------------------------------------------------------
(* main, lines 76-87: partition by kind *)

Role(o) ==
    LET k == kind(o)
    IN IF workload_type(k) THEN "workload"
       ELSE IF k = S("Service") THEN "service"
       ELSE IF k = S("Ingress") THEN "ingress"
       ELSE IF k = S("Pod") THEN "pod"
       ELSE IF k = S("Endpoints") \/ k = S("EndpointSlice") THEN "endpoint"
       ELSE "other"

Bucket(q, role) == SelectSeq(q, LAMBDA o : Role(o) = role)

Partition ==
    /\ pc = "load"
    /\ pc' = "partitioned"
    /\ workloads' = Bucket(objs, "workload")
    /\ services' = Bucket(objs, "service")
    /\ ingresses' = Bucket(objs, "ingress")
    /\ pods' = Bucket(objs, "pod")
    /\ endpoints' = Bucket(objs, "endpoint")
    /\ UNCHANGED <<include_pods, objs, wl_by_ns, svc_backends, lines, low>>

-----------------------------------------------------------------------------
(* main, lines 89-104: workloads by namespace, Service -> Workload matches *)

Range(q) == {q[i] : i \in DOMAIN q}

\* a value that cannot be a dict key, or that was never computed
Unhashable(x) == x.t \in {"raise", "dict", "list"}

\* wl_by_ns after the loop of lines 91-92
WlByNs(ws) ==
    [n \in {ns(w) : w \in Range(ws)} |-> SelectSeq(ws, LAMBDA w : ns(w) = n)]

\* a lookup that forgets the namespace
CandidatesAnyNamespace(byns, n) == workloads

\* wl_by_ns.get(n, [])
Candidates(byns, n) == IF n \in DOMAIN byns THEN byns[n] ELSE <<>>

\* all(wl_labels.get(k) == v for k, v in sel.items())
Matches(sel, wl_labels) ==
    \A k \in DOMAIN sel.v : Get(wl_labels, k, None) = sel.v[k]

\* the Workloads appended for Service s by lines 96-104
MatchedFor(s, byns) ==
    LET sel == svc_selector(s)
    IN IF ~Truthy(sel) THEN <<>>
       ELSE SelectSeq(Candidates(byns, ns(s)),
                      LAMBDA w : Matches(sel, label_map(w)))

\* svc_backends[key].append(w): the list under key grows, a missing key is
\* created
AppendAll(sb, key, ws) ==
    IF ws = <<>> THEN sb
    ELSE [k \in DOMAIN sb \cup {key} |->
            (IF k \in DOMAIN sb THEN sb[k] ELSE <<>>)
            \o (IF k = key THEN ws ELSE <<>>)]

RECURSIVE SvcBackends(_, _, _)
SvcBackends(ss, byns, sb) ==
    IF ss = <<>> THEN sb
    ELSE SvcBackends(Tail(ss), byns,
                     AppendAll(sb, obj_key(Head(ss)), MatchedFor(Head(ss), byns)))

\* svc_backends.get(skey, [])
BackendsGet(sb, skey) == IF skey \in DOMAIN sb THEN sb[skey] ELSE <<>>

\* an exception in lines 91-104
PassARaises(ws, ss) ==
    \/ \E w \in Range(ws) : Unhashable(ns(w))
    \/ \E s \in Range(ss) :
          LET sel == svc_selector(s)
          IN \/ sel.t = "raise"
             \/ /\ Truthy(sel)
                /\ \/ Unhashable(ns(s))
                   \/ \E w \in Range(Candidates(WlByNs(ws), ns(s))) :
                         \/ label_map(w).t # "dict"
                         \/ sel.t # "dict"

PassA ==
    /\ pc = "partitioned"
    /\ IF PassARaises(workloads, services)
       THEN /\ pc' = "crashed"
            /\ UNCHANGED <<wl_by_ns, svc_backends>>
       ELSE /\ pc' = "resolved"
            /\ wl_by_ns' = WlByNs(workloads)
            /\ svc_backends' = SvcBackends(services, WlByNs(workloads), <<>>)
    /\ UNCHANGED <<include_pods, objs, workloads, services, ingresses, pods,
                   endpoints, lines, low>>

-----------------------------------------------------------------------------
(* Output lines.  A line is kept as the operation it draws and the two     *)
(* identifiers it mentions; an identifier prefix_name_namespace is kept as *)
(* its three parts.  Fixed header and footer lines are left out.           *)

Node(prefix, nm, n) == [prefix |-> prefix, name |-> Str(nm), ns |-> Str(n)]
Line(op, src, dst) == [op |-> op, src |-> src, dst |-> dst]

\* n_id(prefix, o), line 168
n_id(prefix, o) == Node(prefix, name(o), ns(o))

RECURSIVE Concat(_)
Concat(qq) == IF qq = <<>> THEN <<>> ELSE Head(qq) \o Concat(Tail(qq))

\* the namespaces of Universe in the order sorted() gives them
Namespaces == <<"default", "web">>

\* lines 139-142 and 177-180: one line per Service record and entry of the
\* list stored under the record's key
BackendLines(ss, sb, op) ==
    Concat([i \in DOMAIN ss |->
        LET s == ss[i]
            backends == BackendsGet(sb, obj_key(s))
        IN [j \in DOMAIN backends |->
               Line(op, n_id("svc", s), n_id("wl", backends[j]))]])

\* lines 146-153 and 198-204: the truthy backend.service.name values of an
\* Ingress, one per path, in rule and path order
Rules(ing) == Get(Get(ing, "spec", EmptyDict), "rules", EmptyList)
Paths(r) == Get(Get(r, "http", EmptyDict), "paths", EmptyList)
SvcName(p) ==
    Get(Get(Get(p, "backend", EmptyDict), "service", EmptyDict), "name", None)

ServiceNames(ing) ==
    LET rules == Iter(Rules(ing))
    IN Concat([i \in DOMAIN rules |->
           LET paths == Iter(Paths(rules[i]))
           IN Concat([j \in DOMAIN paths |->
                  IF Truthy(SvcName(paths[j])) THEN <<SvcName(paths[j])>>
                  ELSE <<>>])])

\* an exception in the rule parsing of one Ingress
IngressRaises(ing) ==
    \/ ns(ing).t = "raise"
    \/ ~Iterable(Rules(ing))
    \/ \E r \in Range(Iter(Rules(ing))) :
          \/ ~Iterable(Paths(r))
          \/ \E p \in Range(Iter(Paths(r))) : SvcName(p).t = "raise"

-----------------------------------------------------------------------------
(* main, lines 122-159: the container view *)

InNs(q, n) == SelectSeq(q, LAMBDA o : ns(o) = S(n))

\* lines 131-137
BoundaryLines(ss, ws) ==
    LET keys == SelectSeq(Namespaces,
                          LAMBDA n : InNs(ss, n) # <<>> \/ InNs(ws, n) # <<>>)
    IN Concat([i \in DOMAIN keys |->
           LET grp_services == InNs(ss, keys[i])
               grp_workloads == InNs(ws, keys[i])
               boundary == Node("ns", S(""), S(keys[i]))
           IN <<Line("Container_Boundary", boundary, boundary)>>
              \o [j \in DOMAIN grp_services |->
                     Line("Container", n_id("svc", grp_services[j]),
                          n_id("svc", grp_services[j]))]
              \o [j \in DOMAIN grp_workloads |->
                     Line("Container", n_id("wl", grp_workloads[j]),
                          n_id("wl", grp_workloads[j]))]])

\* lines 143-156
ContainerIngressLines(ings) ==
    Concat([i \in DOMAIN ings |->
        LET ing == ings[i]
            svcnames == ServiceNames(ing)
        IN Concat([j \in DOMAIN svcnames |->
               << Line("Boundary", n_id("ing", ing), n_id("ing", ing)),
                  Line("forwards", n_id("ing", ing),
                       Node("svc", svcnames[j], ns(ing))) >>])])

\* sorted(by_ns.items()) compares the namespaces: a TypeError when one of
\* two or more is not a string
ContainerRaises(ss, ws, ings) ==
    LET keys == {ns(o) : o \in Range(ss) \cup Range(ws)}
    IN \/ \E k \in keys : Unhashable(k)
       \/ Cardinality(keys) > 1 /\ \E k \in keys : k.t # "str"
       \/ \E ing \in Range(ings) : IngressRaises(ing)

ContainerLines(ss, ws, ings, sb) ==
    BoundaryLines(ss, ws) \o BackendLines(ss, sb, "routes to")
    \o ContainerIngressLines(ings)

ContainerView ==
    /\ pc = "resolved"
    /\ IF ContainerRaises(services, workloads, ingresses)
       THEN /\ pc' = "crashed"
            /\ UNCHANGED lines
       ELSE /\ pc' = "container"
            /\ lines' = ContainerLines(services, workloads, ingresses,
                                       svc_backends)
    /\ UNCHANGED <<include_pods, objs, workloads, services, ingresses, pods,
                   endpoints, wl_by_ns, svc_backends, low>>

-----------------------------------------------------------------------------
(* main, lines 163-209: the topology view *)

OwnerReferences(p) ==
    Or(Get(Get(p, "metadata", EmptyDict), "ownerReferences", EmptyList),
       EmptyList)

\* lines 184-192: one line per Pod, ownerReference and Workload record that
\* agree on namespace, name and kind
PodLines(ps, ws) ==
    Concat([i \in DOMAIN ps |->
        LET p == ps[i]
            owners == Iter(OwnerReferences(p))
        IN Concat([j \in DOMAIN owners |->
               LET oname == Get(owners[j], "name", None)
                   okind == Get(owners[j], "kind", None)
               IN Concat([k \in DOMAIN ws |->
                      IF /\ ns(ws[k]) = ns(p)
                         /\ name(ws[k]) = oname
                         /\ kind(ws[k]) = okind
                      THEN <<Line("controls", n_id("wl", ws[k]),
                                  n_id("pod", p))>>
                      ELSE <<>>])])])

PodRaises(ps) ==
    \E p \in Range(ps) :
        \/ ns(p).t = "raise"
        \/ ~Iterable(OwnerReferences(p))
        \/ \E oref \in Range(Iter(OwnerReferences(p))) : oref.t # "dict"

\* lines 195-206
TopologyIngressLines(ings) ==
    Concat([i \in DOMAIN ings |->
        LET ing == ings[i]
            svcnames == ServiceNames(ing)
        IN <<Line("cloud", n_id("ing", ing), n_id("ing", ing))>>
           \o [j \in DOMAIN svcnames |->
                  Line("forwards", n_id("ing", ing),
                       Node("svc", svcnames[j], ns(ing)))]])

\* the node lines of lines 169-175
NodeLines(q, op, prefix) ==
    [i \in DOMAIN q |-> Line(op, n_id(prefix, q[i]), n_id(prefix, q[i]))]

TopologyRaises(ss, ws, ps, ings, withPods) ==
    \/ \E o \in Range(ss) \cup Range(ws) : ns(o).t = "raise"
    \/ withPods /\ PodRaises(ps)
    \/ \E ing \in Range(ings) : IngressRaises(ing)

TopologyLines(ss, ws, ps, ings, sb, withPods) ==
    NodeLines(ss, "node", "svc")
    \o NodeLines(ws, "component", "wl")
    \o (IF withPods THEN NodeLines(ps, "()", "pod") ELSE <<>>)
    \o BackendLines(ss, sb, "routes")
    \o (IF withPods THEN PodLines(ps, ws) ELSE <<>>)
    \o TopologyIngressLines(ings)

TopologyView ==
    /\ pc = "container"
    /\ IF TopologyRaises(services, workloads, pods, ingresses, include_pods)
       THEN /\ pc' = "crashed"
            /\ UNCHANGED low
       ELSE /\ pc' = "done"
            /\ low' = TopologyLines(services, workloads, pods, ingresses,
                                    svc_backends, include_pods)
    /\ UNCHANGED <<include_pods, objs, workloads, services, ingresses, pods,
                   endpoints, wl_by_ns, svc_backends, lines>>

Next == LoadObject \/ Partition \/ PassA \/ ContainerView \/ TopologyView

Spec == Init /\ [][Next]_vars

-----------------------------------------------------------------------------
(* What a run writes, as a function of the loaded documents *)

IsEdge(l) == l.op \in {"routes to", "routes", "forwards", "controls"}
Edges(out) == SelectSeq(out, IsEdge)

ContainerOf(os) ==
    LET ss == Bucket(os, "service")
        ws == Bucket(os, "workload")
    IN ContainerLines(ss, ws, Bucket(os, "ingress"),
                      SvcBackends(ss, WlByNs(ws), <<>>))

TopologyOf(os, withPods) ==
    LET ss == Bucket(os, "service")
        ws == Bucket(os, "workload")
    IN TopologyLines(ss, ws, Bucket(os, "pod"), Bucket(os, "ingress"),
                     SvcBackends(ss, WlByNs(ws), <<>>), withPods)

Terminated == pc \in {"done", "crashed"}

\* every (k, v) of the selector of s is a label of w
SelectorSubset(s, w) ==
    \A k \in DOMAIN svc_selector(s).v :
        Has(label_map(w), k) /\ label_map(w).v[k] = svc_selector(s).v[k]

\* the names found on the paths of an Ingress
NamesOnPaths(ing) ==
    {Str(SvcName(p)) : p \in {q \in UNION {Range(Iter(Paths(r))) :
                                            r \in Range(Iter(Rules(ing)))} :
                              Truthy(SvcName(q))}}

\* some ownerReference of p names Workload w on kind and name
OwnedBy(p, w) ==
    \E oref \in Range(Iter(OwnerReferences(p))) :
        /\ Has(oref, "kind") /\ oref.v["kind"] = kind(w)
        /\ Has(oref, "name") /\ oref.v["name"] = name(w)

\* the records of os that are the last one loaded under their key
LastOfEachKey(os) ==
    LET keep == {i \in DOMAIN os :
                    \A j \in DOMAIN os : j > i => obj_key(os[j]) # obj_key(os[i])}
        RECURSIVE Pick(_)
        Pick(i) == IF i > Len(os) THEN <<>>
                   ELSE (IF i \in keep THEN <<os[i]>> ELSE <<>>) \o Pick(i + 1)
    IN Pick(1)

\* os with the records at i and i + 1 exchanged
Swap(os, i) ==
    [j \in DOMAIN os |-> IF j = i THEN os[i + 1]
                         ELSE IF j = i + 1 THEN os[i] ELSE os[j]]

-----------------------------------------------------------------------------
(* Claims *)

\* C1: in a completed run, for every Service S with a non-empty selector and
\* every Workload W in the namespace of S, the edge S -> W is written if and
\* only if every key of the selector of S is a label of W with an equal value.
C1_BackendIffSelectorSubset ==
    pc = "done" =>
        \A s \in Range(services), w \in Range(workloads) :
            (Truthy(svc_selector(s)) /\ ns(s) = ns(w)) =>
                ((Line("routes", n_id("svc", s), n_id("wl", w)) \in Range(low))
                 <=> SelectorSubset(s, w))

\* C2: in a completed run, no Service -> Workload edge leaves a Service whose
\* selector is empty (absent, null or an empty map).
C2_EmptySelectorNoBackends ==
    pc = "done" =>
        \A s \in Range(services) :
            ~Truthy(svc_selector(s)) =>
                \A l \in Range(lines) \cup Range(low) :
                    l.op \in {"routes to", "routes"} => l.src # n_id("svc", s)

\* C3: every Service -> Workload edge written to either view joins a loaded
\* Service and a loaded Workload of the same effective namespace, where a
\* record that omits metadata.namespace is in "default".
C3_BackendEdgesNamespaceScoped ==
    \A l \in Range(lines) \cup Range(low) :
        l.op \in {"routes to", "routes"} =>
            /\ l.src.ns = l.dst.ns
            /\ \E s \in Range(services), w \in Range(workloads) :
                  /\ l.src = n_id("svc", s)
                  /\ l.dst = n_id("wl", w)
                  /\ ns(s) = ns(w)
                  /\ (~Has(Get(s, "metadata", EmptyDict), "namespace")
                        => l.src.ns = "default")

\* C3 witness: a completed run with a Service frontend in web and a Service
\* frontend that omits its namespace, each with an edge to the Workload of
\* its own namespace.
C3_Witness ==
    /\ pc = "done"
    /\ \E s \in Range(services) :
          /\ ~Has(Get(s, "metadata", EmptyDict), "namespace")
          /\ Line("routes", n_id("svc", s), Node("wl", S("db"), S("default")))
                \in Range(low)
    /\ Line("routes", Node("svc", S("frontend"), S("web")),
            Node("wl", S("api"), S("web"))) \in Range(low)
    /\ Line("routes to", Node("svc", S("frontend"), S("default")),
            Node("wl", S("db"), S("default"))) \in Range(lines)

\* C4: in a completed run, the Ingress -> Service edges of each view name
\* each (Ingress, service name) pair once.
C4_OneRoutePerIngressAndService ==
    pc = "done" =>
        /\ \A l \in Range(low) :
              l.op = "forwards" => Len(SelectSeq(low, LAMBDA m : m = l)) = 1
        /\ \A l \in Range(lines) :
              l.op = "forwards" => Len(SelectSeq(lines, LAMBDA m : m = l)) = 1

\* C5: when the run has ended, the Ingress -> Service edges that leave an
\* Ingress name exactly the service names found on its paths, in the
\* namespace of the Ingress, whether or not such a Service is loaded.
C5_RoutesAreNamesOnPaths ==
    Terminated =>
        \A ing \in Range(ingresses) :
            {l.dst : l \in {m \in Range(low) :
                               m.op = "forwards" /\ m.src = n_id("ing", ing)}}
            = {[prefix |-> "svc", name |-> nm, ns |-> Str(ns(ing))] :
                  nm \in NamesOnPaths(ing)}

\* C6: when a run with pod expansion has ended, the edge W -> Pod is written
\* if and only if some ownerReference of the Pod names the loaded Workload W
\* of the Pod's namespace on kind and name.
C6_PodOwnershipIffOwnerReference ==
    (Terminated /\ include_pods) =>
        \A p \in Range(pods), w \in Range(workloads) :
            (Line("controls", n_id("wl", w), n_id("pod", p)) \in Range(low))
            <=> (ns(w) = ns(p) /\ OwnedBy(p, w))

\* C7: in a completed run, at most one Workload -> Pod edge ends at each Pod.
C7_AtMostOneOwner ==
    pc = "done" =>
        \A p \in Range(pods) :
            Len(SelectSeq(low, LAMBDA l : l.op = "controls"
                                          /\ l.dst = n_id("pod", p))) <= 1

\* C8: a completed run writes what it would write had only the last record
\* of each (namespace, kind, name) been loaded.
C8_LastLoadedWins ==
    pc = "done" =>
        /\ lines = ContainerOf(LastOfEachKey(objs))
        /\ low = TopologyOf(LastOfEachKey(objs), include_pods)

\* C9: the edges a completed run writes, in the order it writes them, do not
\* depend on the order in which the records were loaded.
C9_EdgeOrderIndependentOfLoadOrder ==
    pc = "done" =>
        \A i \in 1 .. (Len(objs) - 1) :
            /\ Edges(ContainerOf(Swap(objs, i))) = Edges(lines)
            /\ Edges(TopologyOf(Swap(objs, i), include_pods)) = Edges(low)

\* C10: no run ends in an exception, whatever optional fields of the
\* normalized records are absent or null.
C10_ResolutionIsTotal == pc # "crashed"
====
